---- MODULE Spec2Model ----
(***************************************************************************)
(* Asset-Cockpit (src/app.py): the quote / metadata / dividend pipeline    *)
(* and the aggregation pass of main(), as state machines.                  *)
(*                                                                         *)
(*   Spec         main(): one aggregation pass over the holdings           *)
(*   SpecFetch    fetch_bulk_data(): the loop over batches of 50           *)
(*   SpecDiv      fetch_dividend_history(): one call                       *)
(*   SpecPersist  the holdings configuration and its file                  *)
(*                                                                         *)
(* Numbers.  Python floats are modelled as exact fixed-point integers:     *)
(*   raw dividend yield   in units of 1/YieldDen     (0.5 is YieldDen/2)   *)
(*   yield_pct            in units of 1/YieldDen percent                   *)
(*   one_share_div        in units of 1/(100 * YieldDen)                   *)
(*   div_sum, total_div   in units of 1/(100 * YieldDen)                   *)
(*   monthly_dividends    in units of 1/(100 * YieldDen * MonthDen)        *)
(*   pl_pct, yoc, change_pct are truncated to integers in their unit.      *)
(***************************************************************************)
EXTENDS Integers, Sequences, FiniteSets, TLC

VARIABLES
    ticker_list,        \* the argument of fetch_bulk_data / list(stock_configs.keys())
    stock_configs,      \* st.session_state.stock_configs: ticker id -> holding entry
    \* ---- fetch_bulk_data
    closes,             \* provider: ticker id -> the 5d rows' Close column (NaN = missing)
    failing,            \* provider: the batch numbers whose yf.download raises
    i,                  \* loop variable of "for i in range(0, len(ticker_list), CHUNK_SIZE)"
    results,            \* the dict being built
    requests,           \* the provider requests issued so far, as the size of each batch
    fpc,                \* "loop" | "returned"
    \* ---- fetch_dividend_history
    arg_tid,            \* the argument tid
    dividend_api,       \* provider: what yf.Ticker(tid) answers
    pay_months,         \* the returned list, as a set
    dpc,                \* "call" | "returned"
    \* ---- main(): the aggregation pass
    bulk_res,           \* fetch_bulk_data(ticker_list)
    bulk_meta,          \* get_bulk_metadata(ticker_list)
    div_cache,          \* st.cache_data of fetch_dividend_history: ticker id -> months
    pos,                \* position of "for tid in ticker_list" (1-based)
    total_pl,
    total_div,
    total_valuation,
    sector_valuation,   \* dict: sector -> valuation
    monthly_dividends,  \* dict: month 1..12 -> amount
    all_data,           \* the list of rows
    pc,                 \* "start" | "loop" | "done" | "error" | "stopped"
    \* ---- the holdings file and the export / import of the sidebar
    save_file,          \* SAVE_FILE on disk: missing, a JSON text, or a broken text
    download,           \* the document the user got from the download button, if any
    exported_from,      \* the configuration that document was made of
    last_op,            \* the last operation on the configuration
    write_ok,           \* whether the last save_data wrote the file
    \* ---- get_bulk_metadata and the clear-cache button
    metadata_cache,     \* st.session_state.metadata_cache: unset, or ticker id -> info
    metadata_file,      \* METADATA_FILE on disk: missing, a JSON text, or a broken text
    missing,            \* the list of line 222
    mpos,               \* position of "for tid in missing" (1-based)
    chunk_count,
    meta_result,        \* the returned dict
    mpc,                \* "idle" | "fetch" | "flush" | "final" | "return" | "returned"
    meta_op,            \* the last step taken
    last_write_ok,      \* no save_metadata_db since the cache was loaded, or the last one wrote
    ever_persisted      \* the ticker ids the file has held at some time

fetchVars == <<closes, failing, i, results, requests, fpc>>

divVars == <<arg_tid, dividend_api, pay_months, dpc>>

rollups == <<total_pl, total_div, total_valuation, sector_valuation, monthly_dividends>>

aggVars == <<bulk_res, bulk_meta, div_cache, pos, rollups, all_data, pc>>

persistVars == <<save_file, download, exported_from, last_op, write_ok>>

metaVars == <<metadata_cache, metadata_file, missing, mpos, chunk_count, meta_result,
              mpc, meta_op, last_write_ok, ever_persisted>>

----------------------------------------------------------------------------
(* Bounds of the model *)

MaxPrice == 2
MaxTickers == 121
PatternLen == 2
MaxTidLen == 4
MaxBuyPrice == 1
MaxShares == 1

----------------------------------------------------------------------------
(* Helpers *)

Min(a, b) == IF a < b THEN a ELSE b

Range(s) == {s[k] : k \in 1..Len(s)}

RECURSIVE SumSeq(_)
SumSeq(s) == IF s = <<>> THEN 0 ELSE Head(s) + SumSeq(Tail(s))

\* s[a+1 .. min(b, len)], Python's s[a:b] for 0 <= a <= b
Slice(s, a, b) == SubSeq(s, a + 1, Min(b, Len(s)))

----------------------------------------------------------------------------
(* fetch_bulk_data *)

CHUNK_SIZE == 50

NaN == 0    \* a missing Close; real closes are >= 1

\* Python None as a dict value
None == [t |-> "None"]

\* ticker_df.dropna(subset=['Close'])
dropna(rows) == SelectSeq(rows, LAMBDA c : c # NaN)

\* the dict literal of lines 193-198, from the last two valid closes
QuoteOf(current_price, prev_close) ==
    [t          |-> "quote",
     price      |-> current_price,
     prev_close |-> prev_close,
     change_abs |-> current_price - prev_close,
     change_pct |-> ((current_price - prev_close) * 100) \div prev_close]

\* the inner try of lines 187-199 for one ticker of a batch whose download worked:
\*   no valid row    -> continue: nothing is stored           ("skip")
\*   one valid row   -> iloc[-2] raises IndexError -> results[tid] = None
\*   two or more     -> results[tid] = the quote
Skip == [t |-> "skip"]

\* Extract that stores nothing for fewer than two valid rows
ExtractAbsent(rows) ==
    LET ticker_df == dropna(rows)
        n         == Len(ticker_df)
    IN  IF n < 2 THEN Skip
        ELSE QuoteOf(ticker_df[n], ticker_df[n - 1])

Extract(rows) ==
    LET ticker_df == dropna(rows)
        n         == Len(ticker_df)
    IN  IF n = 0 THEN Skip
        ELSE IF n = 1 THEN None
        ELSE QuoteOf(ticker_df[n], ticker_df[n - 1])

\* "for tid in chunk" of line 186: every ticker of the chunk that is not skipped is
\* assigned its entry (an assignment depends on the ticker alone, so the order of the
\* loop does not show in the dict)
ProcessChunk(res, chunk, cl) ==
    LET stored == {tid \in Range(chunk) : Extract(cl[tid]) # Skip}
    IN  [tid \in DOMAIN res \cup stored |->
            IF tid \in stored THEN Extract(cl[tid]) ELSE res[tid]]

\* one iteration of the loop of line 182, at offset off; batch number off \div CHUNK_SIZE + 1
ChunkAt(tl, off) == Slice(tl, off, off + CHUNK_SIZE)

BatchNo(off) == (off \div CHUNK_SIZE) + 1

\* AfterBatch with a handler that gives up what was collected before the failure
AfterBatchReset(res, tl, off, cl, fl) ==
    IF BatchNo(off) \in fl THEN <<>>
    ELSE ProcessChunk(res, ChunkAt(tl, off), cl)

AfterBatch(res, tl, off, cl, fl) ==
    IF BatchNo(off) \in fl THEN res                \* except Exception: continue
    ELSE ProcessChunk(res, ChunkAt(tl, off), cl)

\* the whole function, as main() calls it
RECURSIVE FetchFrom(_, _, _, _, _)
FetchFrom(res, tl, off, cl, fl) ==
    IF off >= Len(tl) THEN res
    ELSE FetchFrom(AfterBatch(res, tl, off, cl, fl), tl, off + CHUNK_SIZE, cl, fl)

fetch_bulk_data(tl, cl, fl) == FetchFrom(<<>>, tl, 0, cl, fl)

----------------------------------------------------------------------------
(* main(): the state of the aggregation pass before it starts *)

ZeroMonths == [m \in 1..12 |-> 0]

AggIdle ==
    /\ bulk_res = <<>>
    /\ bulk_meta = <<>>
    /\ div_cache = <<>>
    /\ pos = 0
    /\ total_pl = 0
    /\ total_div = 0
    /\ total_valuation = 0
    /\ sector_valuation = <<>>
    /\ monthly_dividends = ZeroMonths
    /\ all_data = <<>>
    /\ pc = "idle"

----------------------------------------------------------------------------
(* The holdings file: load_data, save_data and the JSON text *)

NoFile == [t |-> "missing"]

\* a file that open(..., 'w') truncated and json.dump did not finish
BrokenFile == [t |-> "broken"]

TextFile(doc) == [t |-> "text", doc |-> doc]

NoDownload == [t |-> "none"]

PersistIdle ==
    /\ save_file = NoFile
    /\ download = NoDownload
    /\ exported_from = <<>>
    /\ last_op = "idle"
    /\ write_ok = TRUE

\* 'metadata_cache' is not in st.session_state
Unset == [t |-> "unset"]

MetaIdle ==
    /\ metadata_cache = Unset
    /\ metadata_file = NoFile
    /\ missing = <<>>
    /\ mpos = 0
    /\ chunk_count = 0
    /\ meta_result = <<>>
    /\ mpc = "off"
    /\ meta_op = "none"
    /\ last_write_ok = TRUE
    /\ ever_persisted = {}

----------------------------------------------------------------------------
(* fetch_dividend_history *)

\* a ticker id is a string: a sequence of characters
Str(n) == UNION {[1..k -> {"7", ".", "T"}] : k \in 1..n}

\* Python's "sub in s"
Contains(s, sub) ==
    \E k \in 1..(Len(s) - Len(sub) + 1) : SubSeq(s, k, k + Len(sub) - 1) = sub

\* Python's s.endswith(sub)
EndsWith(s, sub) ==
    /\ Len(s) >= Len(sub)
    /\ SubSeq(s, Len(s) - Len(sub) + 1, Len(s)) = sub

DotT == <<".", "T">>

\* lines 254-256 and, again, lines 269-270
MarketDefault(t) == IF Contains(t, DotT) THEN {6, 12} ELSE {}

\* line 265
PayMonth(m) == IF m + 3 <= 12 THEN m + 3 ELSE m + 3 - 12

\* One dividend event: the month of its ex-date, whether the ex-date is within the last
\* two years, and the amount (a row of history() without a dividend has amount 0).
\* The provider's answer:
\*   raises     "dividends": t.dividends raises; "history": t.history raises; "no"
\*   dividends  the events of t.dividends
\*   has_col    history() has a "Dividends" column
\*   hist       the rows of history()
fetch_dividend_history(t, api) ==
    IF api.raises = "dividends" THEN MarketDefault(t)
    ELSE IF api.dividends = {} /\ api.raises = "history" THEN MarketDefault(t)
    ELSE
        LET divs == IF api.dividends # {} THEN api.dividends
                    ELSE IF api.has_col THEN {e \in api.hist : e.amount > 0}
                    ELSE api.dividends
        IN  IF divs = {} THEN MarketDefault(t)
            ELSE LET latest_divs == {e \in divs : e.recent}
                     ex_months   == {e.month : e \in latest_divs}
                 IN  {PayMonth(m) : m \in ex_months}

Event(m, r, a) == [month |-> m, recent |-> r, amount |-> a]

SeriesEvents == {Event(3, TRUE, 1), Event(10, TRUE, 1), Event(9, FALSE, 1)}

HistoryRows == {Event(5, TRUE, 0), Event(3, TRUE, 1), Event(9, FALSE, 1)}

Api(r, d, c, h) == [raises |-> r, dividends |-> d, has_col |-> c, hist |-> h]

DividendApis ==
    {Api("dividends", {}, FALSE, {})}
        \cup {Api("no", d, FALSE, {}) : d \in (SUBSET SeriesEvents) \ {{}}}
        \cup {Api("history", {}, FALSE, {})}
        \cup {Api("no", {}, FALSE, {})}
        \cup {Api("no", {}, TRUE, h) : h \in SUBSET HistoryRows}

DivIdle ==
    /\ arg_tid = <<>>
    /\ dividend_api = Api("no", {}, FALSE, {})
    /\ pay_months = {}
    /\ dpc = "idle"

FetchIdle ==
    /\ closes = <<>>
    /\ failing = {}
    /\ i = 0
    /\ results = <<>>
    /\ requests = <<>>
    /\ fpc = "idle"

InitDiv ==
    /\ arg_tid \in Str(MaxTidLen)
    /\ dividend_api \in DividendApis
    /\ pay_months = {}
    /\ dpc = "call"
    /\ ticker_list = <<>>
    /\ stock_configs = <<>>
    /\ FetchIdle
    /\ AggIdle
    /\ PersistIdle
    /\ MetaIdle

\* lines 242-270: the call
DividendCall ==
    /\ dpc = "call"
    /\ pay_months' = fetch_dividend_history(arg_tid, dividend_api)
    /\ dpc' = "returned"
    /\ UNCHANGED <<ticker_list, stock_configs, fetchVars, arg_tid, dividend_api, aggVars, persistVars, metaVars>>

NextDiv == DividendCall

\* the provider had no dividend event to give, or a fetch raised
NoEvents(api) ==
    \/ api.raises = "dividends"
    \/ /\ api.dividends = {}
       /\ \/ api.raises = "history"
          \/ ~api.has_col
          \/ \A e \in api.hist : e.amount <= 0

\* C6: with no dividend event, or a fetch that raised, the result is {6, 12} for an id
\* that ends in the Tokyo suffix and empty for every other id.
C6_TokyoDefault ==
    (dpc = "returned" /\ NoEvents(dividend_api)) =>
        pay_months = IF EndsWith(arg_tid, DotT) THEN {6, 12} ELSE {}

----------------------------------------------------------------------------
(* SpecFetch: fetch_bulk_data(ticker_list) run batch by batch *)

\* the Close column the provider returns for one ticker
FetchRows ==
    {<<>>, <<NaN>>, <<NaN, 1>>, <<1, MaxPrice>>, <<MaxPrice, NaN, 1>>}

TickerCounts == {0, 1, CHUNK_SIZE, CHUNK_SIZE + 1, 120, MaxTickers}

NumBatches(n) == (n + CHUNK_SIZE - 1) \div CHUNK_SIZE

InitFetch ==
    /\ \E n \in TickerCounts :
         /\ ticker_list = [k \in 1..n |-> k]
         /\ \E pattern \in [0..(PatternLen - 1) -> FetchRows] :
                closes = [k \in 1..n |-> pattern[k % PatternLen]]
         /\ failing \in SUBSET (1..NumBatches(n))
    /\ i = 0
    /\ results = <<>>
    /\ requests = <<>>
    /\ fpc = "loop"
    /\ stock_configs = <<>>
    /\ DivIdle
    /\ AggIdle
    /\ PersistIdle
    /\ MetaIdle

\* lines 183-199: the download of the batch at offset i works
BatchSucceeds ==
    /\ fpc = "loop"
    /\ i < Len(ticker_list)
    /\ BatchNo(i) \notin failing
    /\ results' = AfterBatch(results, ticker_list, i, closes, failing)
    /\ requests' = Append(requests, Len(ChunkAt(ticker_list, i)))
    /\ i' = i + CHUNK_SIZE
    /\ UNCHANGED <<ticker_list, stock_configs, closes, failing, fpc, divVars, aggVars, persistVars, metaVars>>

\* lines 183-185, 200: the download of the batch at offset i raises
BatchFails ==
    /\ fpc = "loop"
    /\ i < Len(ticker_list)
    /\ BatchNo(i) \in failing
    /\ results' = AfterBatch(results, ticker_list, i, closes, failing)
    /\ requests' = Append(requests, Len(ChunkAt(ticker_list, i)))
    /\ i' = i + CHUNK_SIZE
    /\ UNCHANGED <<ticker_list, stock_configs, closes, failing, fpc, divVars, aggVars, persistVars, metaVars>>

\* lines 178, 201: return results (an empty list returns {} at once)
FetchReturn ==
    /\ fpc = "loop"
    /\ i >= Len(ticker_list)
    /\ fpc' = "returned"
    /\ UNCHANGED <<ticker_list, stock_configs, closes, failing, i, results, requests, divVars, aggVars, persistVars, metaVars>>

NextFetch == BatchSucceeds \/ BatchFails \/ FetchReturn

vars == <<ticker_list, stock_configs, fetchVars, divVars, aggVars, persistVars, metaVars>>

SpecFetch == InitFetch /\ [][NextFetch]_vars

SpecDiv == InitDiv /\ [][NextDiv]_vars

FetchTypeOK ==
    /\ fpc \in {"loop", "returned"}
    /\ DOMAIN results \subseteq Range(ticker_list)
    /\ fpc = "returned" => results = fetch_bulk_data(ticker_list, closes, failing)

\* position k of the list (1-based) belongs to this batch, counted from 1
BatchOfPos(k) == ((k - 1) \div 50) + 1

ValidRows(tid) == Len(dropna(closes[tid]))

LastQuote(tid) ==
    LET v == dropna(closes[tid])
    IN  QuoteOf(v[Len(v)], v[Len(v) - 1])

\* C3: the list is requested in consecutive batches of at most 50 (120 tickers: 50, 50
\* and 20); every batch is requested whether or not an earlier one failed; a failed
\* batch leaves its own tickers without an entry, and every ticker of another batch
\* that has two valid closes is in the result with its quote.
C3_BatchIsolation ==
    fpc = "returned" =>
        LET n == Len(ticker_list)
        IN  /\ Len(requests) = NumBatches(n)
            /\ \A b \in 1..Len(requests) :
                   /\ requests[b] <= 50
                   /\ requests[b] = Min(50, n - 50 * (b - 1))
            /\ (n = 120 => requests = <<50, 50, 20>>)
            /\ \A k \in 1..n :
                   IF BatchOfPos(k) \in failing
                   THEN ticker_list[k] \notin DOMAIN results
                   ELSE ValidRows(ticker_list[k]) >= 2 =>
                           /\ ticker_list[k] \in DOMAIN results
                           /\ results[ticker_list[k]] = LastQuote(ticker_list[k])

\* 120 tickers, the 2nd batch failed, and quotes of the 1st and of the 3rd are there
C3_Witness ==
    /\ fpc = "returned"
    /\ Len(ticker_list) = 120
    /\ failing = {2}
    /\ \E k1 \in 1..50, k3 \in 101..120 :
          /\ k1 \in DOMAIN results /\ results[k1].t = "quote"
          /\ k3 \in DOMAIN results /\ results[k3].t = "quote"
    /\ \A k2 \in 51..100 : k2 \notin DOMAIN results

\* C10 as stated: a ticker of a batch that worked, with fewer than 2 valid closes, is
\* no key of the returned mapping.
C10_FewRowsAbsent ==
    fpc = "returned" =>
        \A k \in 1..Len(ticker_list) :
            (BatchOfPos(k) \notin failing /\ ValidRows(ticker_list[k]) < 2)
                => ticker_list[k] \notin DOMAIN results

\* C10 amended: with no valid close the ticker is no key of the returned mapping; with
\* exactly one it is a key mapped to None; either way it has no quote.
C10_FewRowsNoQuote ==
    fpc = "returned" =>
        \A k \in 1..Len(ticker_list) :
            BatchOfPos(k) \notin failing =>
                /\ ValidRows(ticker_list[k]) = 0 => ticker_list[k] \notin DOMAIN results
                /\ ValidRows(ticker_list[k]) = 1 =>
                        /\ ticker_list[k] \in DOMAIN results
                        /\ results[ticker_list[k]] = None

C10_Witness ==
    /\ fpc = "returned"
    /\ \E k0, k1 \in 1..Len(ticker_list) :
          /\ BatchOfPos(k0) \notin failing /\ ValidRows(ticker_list[k0]) = 0
          /\ ticker_list[k0] \notin DOMAIN results
          /\ BatchOfPos(k1) \notin failing /\ ValidRows(ticker_list[k1]) = 1
          /\ results[ticker_list[k1]] = None

----------------------------------------------------------------------------
(* main(): the aggregation pass, lines 392-451 and 575-580 *)

YieldDen == 10 * 10     \* a raw yield k stands for k / YieldDen
MonthDen == 3 * 4       \* a monthly amount a stands for a / MonthDen of a div_sum unit

\* a provider field that holds a number, and one that holds JSON null
Num(k) == [t |-> "num", n |-> k]
Null == [t |-> "null", n |-> 0]

\* SECTOR_MAPPING (two of its keys), with the translated names spelled in ASCII
SECTOR_MAPPING ==
    [Technology |-> "Joho-Tsushin", Energy |-> "Enerugi"]

OtherSector == "Sonota-Gyoshu"

\* lines 417-418
SectorOf(info) ==
    IF "sector" \notin DOMAIN info THEN OtherSector
    ELSE IF info.sector \in DOMAIN SECTOR_MAPPING THEN SECTOR_MAPPING[info.sector]
    ELSE info.sector

\* line 424: info.get("dividendYield", 0)
YVal(info) == IF "dividendYield" \in DOMAIN info THEN info.dividendYield ELSE Num(0)

\* YieldPct with the comparison of line 425 turned into >=
YieldPctAtLeast(k) == IF 2 * k >= YieldDen THEN k ELSE k * 100

\* line 425: y_val if y_val > 0.5 else y_val * 100
YieldPct(k) == IF 2 * k > YieldDen THEN k ELSE k * 100

\* ProfitLoss without the guard on buy_p
ProfitLossUnguarded(price, buy_p, shares) == (price - buy_p) * shares

\* line 436
ProfitLoss(price, buy_p, shares) == IF buy_p > 0 THEN (price - buy_p) * shares ELSE 0

\* line 437
ProfitLossPct(price, buy_p) == IF buy_p > 0 THEN ((price - buy_p) * 100) \div buy_p ELSE 0

\* line 438
YieldOnCost(one_share_div, buy_p) == IF buy_p > 0 THEN one_share_div \div buy_p ELSE 0

\* MonthlyAdd that credits every month with the whole div_sum
MonthlyAddWhole(md, months, div_sum) ==
    IF months # {} /\ div_sum > 0
    THEN [m \in 1..12 |-> IF m \in months THEN md[m] + div_sum * MonthDen ELSE md[m]]
    ELSE md

\* lines 431-433
MonthlyAdd(md, months, div_sum) ==
    IF months # {} /\ Cardinality(months) > 0 /\ div_sum > 0
    THEN LET div_per_month == (div_sum * MonthDen) \div Cardinality(months)
         IN  [m \in 1..12 |-> IF m \in months THEN md[m] + div_per_month ELSE md[m]]
    ELSE md

\* SectorAdd that stores the valuation instead of adding it
SectorAddStore(sv, sec, valuation) ==
    [x \in DOMAIN sv \cup {sec} |-> IF x = sec THEN valuation ELSE sv[x]]

\* line 443
SectorAdd(sv, sec, valuation) ==
    [x \in DOMAIN sv \cup {sec} |->
        IF x = sec THEN (IF sec \in DOMAIN sv THEN sv[sec] ELSE 0) + valuation ELSE sv[x]]

\* line 409: bulk_res.get(tid)
PriceData(res, t) == IF t \in DOMAIN res THEN res[t] ELSE None

\* HasQuote that only asks for the key
HasQuoteKey(res, t) == t \in DOMAIN res

\* line 410: "if not price_data: continue" is not taken
HasQuote(res, t) == PriceData(res, t) # None

\* the statements of lines 412-451 that raise for this ticker:
\*   price_data['price'] on None, cfg['shares'] / cfg['buy_price'] on a missing key
\*   (KeyError), None > 0.5 on a null dividendYield (TypeError)
Raises(res, meta, cfgs, t) ==
    \/ PriceData(res, t) = None
    \/ "shares" \notin DOMAIN cfgs[t]
    \/ "buy_price" \notin DOMAIN cfgs[t]
    \/ YVal(meta[t]).t = "null"

\* lines 412-451 for a ticker with a quote and nothing that raises: the row
RowOf(res, meta, cfgs, t, months) ==
    LET price_data    == res[t]
        info          == meta[t]
        cfg           == cfgs[t]
        shares        == cfg.shares
        buy_p         == cfg.buy_price
        yield_pct     == YieldPct(YVal(info).n)
        one_share_div == yield_pct * price_data.price
    IN  [code       |-> t,
         sector     |-> SectorOf(info),
         price      |-> price_data.price,
         change_pct |-> price_data.change_pct,
         yield_pct  |-> yield_pct,
         shares     |-> shares,
         buy_price  |-> buy_p,
         pl         |-> ProfitLoss(price_data.price, buy_p, shares),
         pl_pct     |-> ProfitLossPct(price_data.price, buy_p),
         div_sum    |-> one_share_div * shares,
         yoc        |-> YieldOnCost(one_share_div, buy_p),
         valuation  |-> price_data.price * shares]

----------------------------------------------------------------------------
(* Spec: inputs *)

TokyoId == <<"7", ".", "T">>
PlainId == <<"7">>

AggTickers == {TokyoId, PlainId}

\* the key orders of a dict over some of the tickers
TickerLists ==
    {<<>>} \cup {<<a>> : a \in AggTickers}
           \cup {l \in [1..2 -> AggTickers] : l[1] # l[2]}

\* holding entries: the file may hold an entry without one of its keys
Cfgs ==
    {[buy_price |-> b, shares |-> sh] : b \in {0, MaxBuyPrice}, sh \in {0, MaxShares}}
        \cup {[buy_price |-> 0], [shares |-> MaxShares]}

AggRows == {<<>>, <<NaN, 1>>, <<1, MaxPrice>>, <<MaxPrice, 1>>}

AggYields == {3, YieldDen \div 2, (YieldDen \div 2) + 1}

\* metadata records: {} for a ticker whose fetch failed, see line 237
Infos ==
    {[sector |-> "Energy"], [dividendYield |-> Null]}
        \cup {[dividendYield |-> Num(k), sector |-> "Technology"] : k \in AggYields}
        \cup {[dividendYield |-> Num(YieldDen \div 2), sector |-> "Crypto"]}

EmptyInfo == <<>>

AggDividendApis ==
    {Api("dividends", {}, FALSE, {}),
     Api("no", {Event(10, TRUE, 1)}, FALSE, {}),
     Api("no", {Event(3, TRUE, 1), Event(10, TRUE, 1)}, FALSE, {})}

Init ==
    /\ ticker_list \in TickerLists
    /\ stock_configs \in [Range(ticker_list) -> Cfgs]
    /\ FetchIdle
    /\ DivIdle
    /\ PersistIdle
    /\ MetaIdle
    /\ bulk_res = <<>>
    /\ bulk_meta = <<>>
    /\ div_cache = <<>>
    /\ pos = 0
    /\ total_pl = 0
    /\ total_div = 0
    /\ total_valuation = 0
    /\ sector_valuation = <<>>
    /\ monthly_dividends = ZeroMonths
    /\ all_data = <<>>
    /\ pc = "start"

\* lines 392-395: nothing is registered, the page stops before the pass
NoHoldings ==
    /\ pc = "start"
    /\ ticker_list = <<>>
    /\ pc' = "stopped"
    /\ UNCHANGED <<ticker_list, stock_configs, fetchVars, divVars, persistVars, metaVars,
                   bulk_res, bulk_meta, div_cache, pos, rollups, all_data>>

\* lines 397-406: both bulk fetches (neither raises) and the zeroed rollups.  The
\* provider's rows, its failing batches and the resolved metadata are inputs.
StartPass ==
    /\ pc = "start"
    /\ ticker_list # <<>>
    /\ \E cl \in [Range(ticker_list) -> AggRows], fl \in SUBSET {1} :
          bulk_res' = fetch_bulk_data(ticker_list, cl, fl)
    /\ bulk_meta' \in [Range(ticker_list) -> Infos \cup {EmptyInfo}]
    /\ total_pl' = 0
    /\ total_div' = 0
    /\ total_valuation' = 0
    /\ sector_valuation' = <<>>
    /\ monthly_dividends' = ZeroMonths
    /\ all_data' = <<>>
    /\ pos' = 1
    /\ pc' = "loop"
    /\ UNCHANGED <<ticker_list, stock_configs, fetchVars, divVars, persistVars, metaVars, div_cache>>

\* lines 408-410: no quote for this ticker, continue
SkipTicker ==
    /\ pc = "loop"
    /\ pos <= Len(ticker_list)
    /\ ~HasQuote(bulk_res, ticker_list[pos])
    /\ pos' = pos + 1
    /\ UNCHANGED <<ticker_list, stock_configs, fetchVars, divVars, persistVars, metaVars,
                   bulk_res, bulk_meta, div_cache, rollups, all_data, pc>>

\* lines 412-451: the row of this ticker and its share of every rollup.  The answer
\* of the dividend provider is an input; the schedule is kept as the cache keeps it.
AddRow ==
    /\ pc = "loop"
    /\ pos <= Len(ticker_list)
    /\ HasQuote(bulk_res, ticker_list[pos])
    /\ ~Raises(bulk_res, bulk_meta, stock_configs, ticker_list[pos])
    /\ \E api \in AggDividendApis :
          LET t      == ticker_list[pos]
              months == fetch_dividend_history(t, api)
              row    == RowOf(bulk_res, bulk_meta, stock_configs, t, months)
          IN  /\ div_cache' = [x \in DOMAIN div_cache \cup {t} |->
                                  IF x = t THEN months ELSE div_cache[x]]
              /\ monthly_dividends' = MonthlyAdd(monthly_dividends, months, row.div_sum)
              /\ total_pl' = total_pl + row.pl
              /\ total_div' = total_div + row.div_sum
              /\ total_valuation' = total_valuation + row.valuation
              /\ sector_valuation' = SectorAdd(sector_valuation, row.sector, row.valuation)
              /\ all_data' = Append(all_data, row)
    /\ pos' = pos + 1
    /\ UNCHANGED <<ticker_list, stock_configs, fetchVars, divVars, persistVars, metaVars,
                   bulk_res, bulk_meta, pc>>

\* lines 412-425 raise, lines 575-580: the pass ends in the error message; nothing of
\* lines 453-573 is rendered
RowRaises ==
    /\ pc = "loop"
    /\ pos <= Len(ticker_list)
    /\ HasQuote(bulk_res, ticker_list[pos])
    /\ Raises(bulk_res, bulk_meta, stock_configs, ticker_list[pos])
    /\ pc' = "error"
    /\ UNCHANGED <<ticker_list, stock_configs, fetchVars, divVars, persistVars, metaVars,
                   bulk_res, bulk_meta, div_cache, pos, rollups, all_data>>

\* lines 453-573: the loop is over, the rollups and the rows are rendered
FinishPass ==
    /\ pc = "loop"
    /\ pos > Len(ticker_list)
    /\ pc' = "done"
    /\ UNCHANGED <<ticker_list, stock_configs, fetchVars, divVars, persistVars, metaVars,
                   bulk_res, bulk_meta, div_cache, pos, rollups, all_data>>

Next == NoHoldings \/ StartPass \/ SkipTicker \/ AddRow \/ RowRaises \/ FinishPass

Spec == Init /\ [][Next]_vars

\* what the page shows of the pass: the rows, once the pass is through
RowsShown == IF pc = "done" THEN all_data ELSE <<>>

RECURSIVE SumOver(_, _)
SumOver(f, S) ==
    IF S = {} THEN 0
    ELSE LET x == CHOOSE y \in S : TRUE IN f[x] + SumOver(f, S \ {x})

SumAll(f) == SumOver(f, DOMAIN f)

Codes(rows) == {rows[k].code : k \in 1..Len(rows)}

AggTypeOK ==
    /\ pc \in {"start", "loop", "done", "error", "stopped"}
    /\ \A k \in 1..Len(all_data) :
          div_cache[all_data[k].code] # {} =>
              (all_data[k].div_sum * MonthDen) % Cardinality(div_cache[all_data[k].code]) = 0

----------------------------------------------------------------------------
(* The aggregation pass: properties *)

NoQuoteFor(t) == t \notin DOMAIN bulk_res \/ bulk_res[t] = None

RowsOfCode(rows, t) == {k \in 1..Len(rows) : rows[k].code = t}

\* C1: the step of the pass at a ticker that has no quote (no key in the quote result,
\* or a key mapped to None) appends no row, leaves total P/L, total dividend, total
\* valuation, the sector map and the monthly map as they are, and goes on to the next
\* ticker without entering the error state.
C1_NoQuoteExcluded ==
    [][(pc = "loop" /\ pos <= Len(ticker_list) /\ NoQuoteFor(ticker_list[pos]))
         => /\ all_data' = all_data
            /\ total_pl' = total_pl
            /\ total_div' = total_div
            /\ total_valuation' = total_valuation
            /\ sector_valuation' = sector_valuation
            /\ monthly_dividends' = monthly_dividends
            /\ pc' = "loop"
            /\ pos' = pos + 1]_vars

\* a pass that is through, with a ticker that has no quote and the row of another
\* ticker
C1_Witness ==
    /\ pc = "done"
    /\ \E t \in Range(ticker_list) :
          /\ NoQuoteFor(t)
          /\ RowsOfCode(all_data, t) = {}
    /\ Len(all_data) = 1
    /\ total_valuation > 0

\* what makes the row of ticker t fail, whatever the other tickers are
FailsAlone(t) ==
    \/ "shares" \notin DOMAIN stock_configs[t]
    \/ "buy_price" \notin DOMAIN stock_configs[t]
    \/ YVal(bulk_meta[t]).t = "null"

\* C2: when a pass has ended, every holding that has a quote and no failure of its
\* own has its row in what is shown, whatever failed for the other holdings.
C2_FailuresStayLocal ==
    pc \in {"done", "error"} =>
        \A t \in Range(ticker_list) :
            (~NoQuoteFor(t) /\ ~FailsAlone(t)) => RowsOfCode(RowsShown, t) # {}

\* C4: the 12 monthly entries add up to the dividend_total of the rows whose schedule
\* is not empty (both sides in the unit of the monthly entries).
C4_MonthlySum ==
    pc \in {"loop", "done"} =>
        SumAll(monthly_dividends) =
            SumSeq([k \in 1..Len(all_data) |->
                      IF div_cache[all_data[k].code] # {}
                      THEN all_data[k].div_sum * MonthDen ELSE 0])

\* a finished pass with a paying row on a two-month schedule and a paying row with
\* an empty schedule
C4_Witness ==
    /\ pc = "done"
    /\ \E a, b \in 1..Len(all_data) :
          /\ all_data[a].div_sum > 0 /\ Cardinality(div_cache[all_data[a].code]) = 2
          /\ all_data[b].div_sum > 0 /\ div_cache[all_data[b].code] = {}

\* C5: the yield of a row is 100 times the raw yield when the raw yield is at most
\* 0.5, and the raw yield itself above 0.5 (yield_pct is in units of 1 / YieldDen).
C5_YieldNormalized ==
    \A k \in 1..Len(all_data) :
        LET v == YVal(bulk_meta[all_data[k].code]).n
        IN  all_data[k].yield_pct = IF 2 * v <= YieldDen THEN 100 * v ELSE v

\* rows at the boundary 0.5 (giving 50 percent) and just above it
C5_Witness ==
    /\ pc = "done"
    /\ \E a, b \in 1..Len(all_data) :
          /\ 2 * YVal(bulk_meta[all_data[a].code]).n = YieldDen
          /\ all_data[a].yield_pct = 50 * YieldDen
          /\ 2 * YVal(bulk_meta[all_data[b].code]).n > YieldDen
          /\ all_data[b].yield_pct = YVal(bulk_meta[all_data[b].code]).n

\* C7: the total valuation is the sum of price * shares over the rows, the rows are
\* the tickers passed so far that have a quote, one row each, and the sector map
\* adds up to the same total.
C7_ValuationSums ==
    pc \in {"loop", "done"} =>
        /\ \A k \in 1..Len(all_data) :
              all_data[k].valuation = all_data[k].price * all_data[k].shares
        /\ total_valuation = SumSeq([k \in 1..Len(all_data) |-> all_data[k].valuation])
        /\ SumAll(sector_valuation) = total_valuation
        /\ Codes(all_data) = {ticker_list[k] : k \in {j \in 1..(pos - 1) : ~NoQuoteFor(ticker_list[j])}}
        /\ Len(all_data) = Cardinality(Codes(all_data))

\* a finished pass with two valued rows in one sector
C7_Witness ==
    /\ pc = "done"
    /\ Len(all_data) = 2
    /\ all_data[1].valuation > 0
    /\ all_data[2].valuation > 0
    /\ all_data[1].sector = all_data[2].sector

\* C8: a row with buy_price = 0 has pl = pl_pct = yoc = 0, and total P/L is the sum
\* of pl over the rows, so such a row adds 0 to it.
C8_ZeroCostBasis ==
    pc \in {"loop", "done"} =>
        /\ \A k \in 1..Len(all_data) :
              all_data[k].buy_price = 0 =>
                  /\ all_data[k].pl = 0
                  /\ all_data[k].pl_pct = 0
                  /\ all_data[k].yoc = 0
        /\ total_pl = SumSeq([k \in 1..Len(all_data) |-> all_data[k].pl])

\* a row without cost basis that has a price, shares and a yield, beside a row with
\* a profit
C8_Witness ==
    /\ pc = "done"
    /\ \E a, b \in 1..Len(all_data) :
          /\ all_data[a].buy_price = 0
          /\ all_data[a].valuation > 0
          /\ all_data[a].div_sum > 0
          /\ all_data[b].pl # 0
          /\ total_pl = all_data[b].pl

----------------------------------------------------------------------------
(* SpecPersist: the holdings configuration, its file, export and import *)

DigitChars == <<"0", "1", "2", "3", "4", "5", "6", "7", "8", "9">>

IsDigit(c) == \E d \in 1..10 : DigitChars[d] = c

DigitValue(c) == (CHOOSE d \in 1..10 : DigitChars[d] = c) - 1

\* the decimal text of an int, as json.dumps writes it
RECURSIVE Digits(_)
Digits(n) == IF n < 10 THEN <<DigitChars[n + 1]>>
             ELSE Digits(n \div 10) \o <<DigitChars[(n % 10) + 1]>>

\* int(text) of a decimal text, as json.load reads it
RECURSIVE ParseDigits(_)
ParseDigits(text) ==
    IF Len(text) = 1 THEN DigitValue(text[1])
    ELSE 10 * ParseDigits(SubSeq(text, 1, Len(text) - 1)) + DigitValue(text[Len(text)])

\* buy_price is a float (lines 310 and 528): json.dumps writes repr(), "0.0" for 0.0;
\* the model's prices are whole, so the fraction is always "0"
FloatText(n) == Digits(n) \o <<".", "0">>

ParseFloat(text) ==
    LET dot == CHOOSE k \in 1..Len(text) : text[k] = "."
    IN  ParseDigits(SubSeq(text, 1, dot - 1))

\* one holding entry as JSON text, and back
DumpsCfg(cfg) == [buy_price |-> FloatText(cfg.buy_price), shares |-> Digits(cfg.shares)]

LoadsCfg(txt) == [buy_price |-> ParseFloat(txt.buy_price), shares |-> ParseDigits(txt.shares)]

\* json.dumps(stock_configs): a JSON object, one member per key
Dumps(configs) == {[key |-> t, value |-> DumpsCfg(configs[t])] : t \in DOMAIN configs}

\* json.load on such a document
Loads(doc) ==
    [t \in {m.key : m \in doc} |-> LoadsCfg((CHOOSE m \in doc : m.key = t).value)]

\* lines 156-163: a missing or unreadable file is {}
load_data(file) == IF file.t = "text" THEN Loads(file.doc) ELSE <<>>

\* lines 165-170: the file after save_data(data).  The write can fail (the error is
\* only shown): at open(), leaving the file as it was, or in json.dump, after open()
\* has truncated it.
SaveOutcomes == {"ok", "open_fails", "dump_fails"}

save_data(file, data, outcome) ==
    IF outcome = "ok" THEN TextFile(Dumps(data))
    ELSE IF outcome = "open_fails" THEN file
    ELSE BrokenFile

\* Imported as dict.update() would do it
ImportedMerged(old, doc) ==
    [t \in DOMAIN old \cup DOMAIN Loads(doc) |->
        IF t \in DOMAIN Loads(doc) THEN Loads(doc)[t] ELSE old[t]]

\* line 358: st.session_state.stock_configs = json.load(up)
Imported(old, doc) == Loads(doc)

\* what the user types into the "4 digit code" field
TypedCodes ==
    {<<"7", "2", "0", "3">>, <<"9", "9", "8", "4">>, <<"7", "2", "0">>, <<"7", "2", "0", "x">>}

\* line 310
DefaultCfg == [buy_price |-> 0, shares |-> 100]

\* what the user can set in the editor
EditCfgs == {[buy_price |-> b, shares |-> MaxShares] : b \in {0, MaxBuyPrice}}

PersistCfgs == {DefaultCfg} \cup EditCfgs

InitPersist ==
    /\ save_file \in {NoFile, BrokenFile}
          \cup {TextFile(Dumps([t \in {<<"7", "2", "0", "3">> \o DotT} |-> c])) : c \in PersistCfgs}
    /\ stock_configs = load_data(save_file)          \* lines 327-328
    /\ download = NoDownload
    /\ exported_from = <<>>
    /\ last_op = "load"
    /\ write_ok = TRUE
    /\ ticker_list = <<>>
    /\ FetchIdle
    /\ DivIdle
    /\ AggIdle
    /\ MetaIdle

\* lines 305-312: add_ticker_callback
AddTicker ==
    \E code \in TypedCodes, outcome \in SaveOutcomes :
        LET full_code == code \o DotT
        IN  IF /\ \A k \in 1..Len(code) : IsDigit(code[k])
               /\ Len(code) = 4
               /\ full_code \notin DOMAIN stock_configs
            THEN /\ stock_configs' =
                       [t \in DOMAIN stock_configs \cup {full_code} |->
                           IF t = full_code THEN DefaultCfg ELSE stock_configs[t]]
                 /\ save_file' = save_data(save_file, stock_configs', outcome)
                 /\ write_ok' = (outcome = "ok")
                 /\ last_op' = "add"
                 /\ UNCHANGED <<ticker_list, fetchVars, divVars, aggVars, metaVars, download, exported_from>>
            ELSE UNCHANGED vars

\* lines 352-353: the download button hands out json.dumps(stock_configs)
Export ==
    /\ download' = TextFile(Dumps(stock_configs))
    /\ exported_from' = stock_configs
    /\ last_op' = "export"
    /\ UNCHANGED <<ticker_list, stock_configs, fetchVars, divVars, aggVars, metaVars, save_file, write_ok>>

\* lines 356-360: the user uploads the document of the last download
Import ==
    /\ download # NoDownload
    /\ \E outcome \in SaveOutcomes :
          /\ stock_configs' = Imported(stock_configs, download.doc)
          /\ save_file' = save_data(save_file, stock_configs', outcome)
          /\ write_ok' = (outcome = "ok")
    /\ last_op' = "import"
    /\ UNCHANGED <<ticker_list, fetchVars, divVars, aggVars, metaVars, download, exported_from>>

\* lines 376-381: some tickers are deselected and the deletion is confirmed
DeleteTickers ==
    /\ \E sel \in SUBSET (DOMAIN stock_configs), outcome \in SaveOutcomes :
          /\ sel # DOMAIN stock_configs
          /\ stock_configs' = [t \in sel |-> stock_configs[t]]
          /\ save_file' = save_data(save_file, stock_configs', outcome)
          /\ write_ok' = (outcome = "ok")
    /\ last_op' = "delete"
    /\ UNCHANGED <<ticker_list, fetchVars, divVars, aggVars, metaVars, download, exported_from>>

\* lines 525-531: the edited table replaces the configuration
SaveEdits ==
    /\ DOMAIN stock_configs # {}
    /\ \E new_configs \in [DOMAIN stock_configs -> EditCfgs], outcome \in SaveOutcomes :
          /\ stock_configs' = new_configs
          /\ save_file' = save_data(save_file, new_configs, outcome)
          /\ write_ok' = (outcome = "ok")
    /\ last_op' = "edit"
    /\ UNCHANGED <<ticker_list, fetchVars, divVars, aggVars, metaVars, download, exported_from>>

NextPersist == AddTicker \/ Export \/ Import \/ DeleteTickers \/ SaveEdits

SpecPersist == InitPersist /\ [][NextPersist]_vars

MaxMissing == 12
MaxMetaTickers == 3

\* st.session_state.metadata_cache holding the dict db
Cached(db) == [t |-> "dict", db |-> db]

\* line 229: the attribute bag the provider returns for a ticker
ProviderInfo(t) == [symbol |-> t]

\* line 214: json.dump writes one member per key of the dict
MetaDumps(db) == {[key |-> t, value |-> db[t]] : t \in DOMAIN db}

\* line 207: json.load rebuilds the dict from the members
MetaLoads(doc) ==
    [t \in {e.key : e \in doc} |-> (CHOOSE e \in doc : e.key = t).value]

\* lines 203-209: a missing file, or a text json.load rejects, gives {}
load_metadata_db(file) == IF file.t = "text" THEN MetaLoads(file.doc) ELSE <<>>

\* lines 211-215: open(..., 'w') may fail and leave the file alone; json.dump may
\* fail after the file was truncated; both are swallowed by "except Exception: pass"
save_metadata_db(file, db, outcome) ==
    CASE outcome = "ok" -> TextFile(MetaDumps(db))
      [] outcome = "open_fails" -> file
      [] OTHER -> BrokenFile

\* line 230: metadata_cache[tid] = info
Store(db, t, info) == [x \in DOMAIN db \cup {t} |-> IF x = t THEN info ELSE db[x]]

\* line 222
Missing(tl, db) == SelectSeq(tl, LAMBDA t : t \notin DOMAIN db)

FlushDueNever(n) == FALSE

\* line 232
FlushDue(n) == n % 10 = 0

\* line 237: metadata_cache.get(tid, {}) for every ticker of the list
Resolved(tl, db) ==
    [t \in Range(tl) |-> IF t \in DOMAIN db THEN db[t] ELSE EmptyInfo]

ClearedFileReset(file) == NoFile

\* lines 385-389: the button does not touch METADATA_FILE
ClearedFile(file) == file

\* a call of save_metadata_db(metadata_cache) with the given outcome
WriteFile(outcome) ==
    /\ metadata_file' = save_metadata_db(metadata_file, metadata_cache.db, outcome)
    /\ last_write_ok' = (outcome = "ok")
    /\ ever_persisted' = IF outcome = "ok"
                           THEN ever_persisted \cup DOMAIN metadata_cache.db
                           ELSE ever_persisted

\* lines 219-223: the cache is loaded from the file when the session has none, and
\* the missing tickers are listed
ResolveCall(tl) ==
    /\ mpc \in {"off", "returned"}
    /\ LET loads == metadata_cache = Unset
           db == IF loads THEN load_metadata_db(metadata_file) ELSE metadata_cache.db
           m == Missing(tl, db)
       IN /\ ticker_list' = tl
          /\ metadata_cache' = Cached(db)
          /\ missing' = m
          /\ mpos' = 1
          /\ chunk_count' = 0
          /\ mpc' = IF m = <<>> THEN "return" ELSE "fetch"
          /\ meta_op' = IF loads THEN "reload" ELSE "resolve"
          /\ last_write_ok' = (loads \/ last_write_ok)
    /\ UNCHANGED <<stock_configs, fetchVars, divVars, aggVars, persistVars,
                   metadata_file, meta_result, ever_persisted>>

\* lines 229-231: the provider answers, the info is stored and counted
FetchOk ==
    /\ mpc = "fetch"
    /\ mpos <= Len(missing)
    /\ metadata_cache' =
           Cached(Store(metadata_cache.db, missing[mpos], ProviderInfo(missing[mpos])))
    /\ chunk_count' = chunk_count + 1
    /\ mpc' = "flush"
    /\ meta_op' = "fetch_ok"
    /\ UNCHANGED <<ticker_list, stock_configs, fetchVars, divVars, aggVars, persistVars,
                   metadata_file, missing, mpos, meta_result, last_write_ok,
                   ever_persisted>>

\* lines 229, 234: the provider raises, the loop goes on with the next ticker
FetchFails ==
    /\ mpc = "fetch"
    /\ mpos <= Len(missing)
    /\ mpos' = mpos + 1
    /\ meta_op' = "fetch_fails"
    /\ UNCHANGED <<ticker_list, stock_configs, fetchVars, divVars, aggVars, persistVars,
                   metadata_cache, metadata_file, missing, chunk_count, meta_result,
                   mpc, last_write_ok, ever_persisted>>

\* lines 232-233: after a stored info, the file is written when the count is due
FlushCheck ==
    /\ mpc = "flush"
    /\ IF FlushDue(chunk_count)
         THEN \E outcome \in SaveOutcomes : WriteFile(outcome)
         ELSE UNCHANGED <<metadata_file, last_write_ok, ever_persisted>>
    /\ mpos' = mpos + 1
    /\ mpc' = "fetch"
    /\ meta_op' = IF FlushDue(chunk_count) THEN "flush" ELSE "no_flush"
    /\ UNCHANGED <<ticker_list, stock_configs, fetchVars, divVars, aggVars, persistVars,
                   metadata_cache, missing, chunk_count, meta_result>>

\* line 235: the write at the end of the loop
FinalFlush ==
    /\ mpc = "fetch"
    /\ mpos > Len(missing)
    /\ \E outcome \in SaveOutcomes : WriteFile(outcome)
    /\ mpc' = "return"
    /\ meta_op' = "final_flush"
    /\ UNCHANGED <<ticker_list, stock_configs, fetchVars, divVars, aggVars, persistVars,
                   metadata_cache, missing, mpos, chunk_count, meta_result>>

\* line 237
Return ==
    /\ mpc = "return"
    /\ meta_result' = Resolved(ticker_list, metadata_cache.db)
    /\ mpc' = "returned"
    /\ meta_op' = "return"
    /\ UNCHANGED <<ticker_list, stock_configs, fetchVars, divVars, aggVars, persistVars,
                   metadata_cache, metadata_file, missing, mpos, chunk_count,
                   last_write_ok, ever_persisted>>

\* the files a session can start with: none, one whose write broke, one written
\* by an earlier backfill
StoredFiles == {NoFile, BrokenFile, TextFile(MetaDumps(Store(<<>>, 1, ProviderInfo(1))))}

\* one backfill of the tickers 1..MaxMissing in a fresh session
InitBackfill ==
    /\ ticker_list = [k \in 1..MaxMissing |-> k]
    /\ stock_configs = <<>>
    /\ metadata_cache = Unset
    /\ metadata_file \in StoredFiles
    /\ missing = <<>>
    /\ mpos = 0
    /\ chunk_count = 0
    /\ meta_result = <<>>
    /\ mpc = "off"
    /\ meta_op = "none"
    /\ last_write_ok = TRUE
    /\ ever_persisted = DOMAIN load_metadata_db(metadata_file)
    /\ FetchIdle
    /\ DivIdle
    /\ AggIdle
    /\ PersistIdle

\* lines 374, 400: the call of the backfill
Backfill ==
    /\ mpc = "off"
    /\ ResolveCall(ticker_list)

NextBackfill ==
    \/ Backfill
    \/ FetchOk
    \/ FetchFails
    \/ FlushCheck
    \/ FinalFlush
    \/ Return

SpecBackfill == InitBackfill /\ [][NextBackfill]_vars

\* the entries of the map that the file does not hold
Unsaved ==
    IF metadata_cache = Unset
      THEN 0
      ELSE Cardinality(DOMAIN metadata_cache.db \ DOMAIN load_metadata_db(metadata_file))

\* the loop over the missing tickers is running
InLoop == mpc \in {"fetch", "flush"}

\* the loop has ended and its last write is done
LoopEnded == mpc \in {"return", "returned"} /\ missing # <<>>

ListOf(S) ==
    CHOOSE q \in [1..Cardinality(S) -> S] :
        \A a, b \in 1..Cardinality(S) : a < b => q[a] < q[b]

\* lines 371-374, 400: the resolver is called with the tickers held, when there are any
MetaLists == {ListOf(S) : S \in SUBSET (1..MaxMetaTickers) \ {{}}}

InitMeta ==
    /\ ticker_list = <<>>
    /\ stock_configs = <<>>
    /\ MetaIdle
    /\ FetchIdle
    /\ DivIdle
    /\ AggIdle
    /\ PersistIdle

\* lines 374, 400: a call of get_bulk_metadata in a run of the script
Resolve == \E tl \in MetaLists : ResolveCall(tl)

\* lines 385-389: the button drops the session's cache and reruns the script
ClearCache ==
    /\ mpc \in {"off", "returned"}
    /\ metadata_cache' = Unset
    /\ metadata_file' = ClearedFile(metadata_file)
    /\ mpc' = "off"
    /\ meta_op' = "clear"
    /\ UNCHANGED <<ticker_list, stock_configs, fetchVars, divVars, aggVars, persistVars,
                   missing, mpos, chunk_count, meta_result, last_write_ok,
                   ever_persisted>>

NextMeta ==
    \/ Resolve
    \/ FetchOk
    \/ FetchFails
    \/ FlushCheck
    \/ FinalFlush
    \/ Return
    \/ ClearCache

SpecMeta == InitMeta /\ [][NextMeta]_vars

\* the step asks the provider for the info of missing[mpos]
FetchStep == meta_op' \in {"fetch_ok", "fetch_fails"}

\* the clear leaves the file and drops the cache
ClearFrame ==
    meta_op' = "clear" => (metadata_cache' = Unset /\ metadata_file' = metadata_file)

\* a failed fetch stores nothing and the loop goes on; the return gives every ticker
\* of the list its stored info, or the empty bag when it has none
FailedStaysAbsent ==
    /\ meta_op' = "fetch_fails" =>
           /\ metadata_cache' = metadata_cache
           /\ missing[mpos] \notin DOMAIN metadata_cache'.db
           /\ mpc' = "fetch"
    /\ meta_op' = "return" =>
           /\ DOMAIN meta_result' = Range(ticker_list)
           /\ \A t \in Range(ticker_list) :
                  meta_result'[t] = IF t \in DOMAIN metadata_cache.db
                                      THEN ProviderInfo(t)
                                      ELSE EmptyInfo

====
